---- MODULE Spec2Model ----
(***************************************************************************)
(* Model of the FLS110 sensor conversion routines (src/src/main.c and      *)
(* src/src/utilities-config.h): the calibration formula of                 *)
(* calculateSensorOutput, setInputDistributionsViaUxHwCall, and the        *)
(* control flow of main (argument parsing outcome, sample buffer, timing,  *)
(* the driver loop, aggregation, reporting, clean-up).                     *)
(*                                                                         *)
(* A C double is modelled as an exact rational [neg, n, d]: a sign, and a  *)
(* numerator and a denominator that are natural numbers of unbounded size  *)
(* (sequences of digits, least significant first).  Floating-point         *)
(* rounding is not modelled.  A double that was never assigned has the     *)
(* denominator zero (Indeterminate).                                       *)
(***************************************************************************)
EXTENDS Integers, Sequences, FiniteSets, TLC

(***************************************************************************)
(* Bounds of the model.                                                    *)
(***************************************************************************)
MaxIterations == 2

MaxClock == 1

(***************************************************************************)
(* Natural numbers of unbounded size, in digits of Radix.                  *)
(***************************************************************************)
Radix == 10 * 1000

RECURSIVE BN(_)
BN(k) == IF k = 0 THEN <<>> ELSE <<k % Radix>> \o BN(k \div Radix)

RECURSIVE BNAddC(_, _, _)
BNAddC(a, b, c) ==
    IF a = <<>> /\ b = <<>>
    THEN IF c = 0 THEN <<>> ELSE <<c>>
    ELSE LET x == IF a = <<>> THEN 0 ELSE Head(a)
             y == IF b = <<>> THEN 0 ELSE Head(b)
             s == x + y + c
         IN  <<s % Radix>> \o BNAddC(IF a = <<>> THEN a ELSE Tail(a),
                                     IF b = <<>> THEN b ELSE Tail(b),
                                     s \div Radix)

BNAdd(a, b) == BNAddC(a, b, 0)

RECURSIVE BNStrip(_)
BNStrip(a) ==
    IF a # <<>> /\ a[Len(a)] = 0 THEN BNStrip(SubSeq(a, 1, Len(a) - 1)) ELSE a

RECURSIVE BNSubB(_, _, _)
BNSubB(a, b, c) ==
    IF a = <<>>
    THEN <<>>
    ELSE LET y == IF b = <<>> THEN 0 ELSE Head(b)
             s == Head(a) - y - c
         IN  <<IF s < 0 THEN s + Radix ELSE s>>
                 \o BNSubB(Tail(a), IF b = <<>> THEN b ELSE Tail(b),
                           IF s < 0 THEN 1 ELSE 0)

\* a - b, for a >= b.
BNSub(a, b) == BNStrip(BNSubB(a, b, 0))

RECURSIVE BNMulDigit(_, _, _)
BNMulDigit(a, d, c) ==
    IF a = <<>>
    THEN IF c = 0 THEN <<>> ELSE <<c>>
    ELSE LET s == Head(a) * d + c
         IN  <<s % Radix>> \o BNMulDigit(Tail(a), d, s \div Radix)

RECURSIVE BNMul(_, _)
BNMul(a, b) ==
    IF a = <<>> \/ b = <<>>
    THEN <<>>
    ELSE LET rest == BNMul(a, Tail(b))
         IN  BNAdd(IF Head(b) = 0 THEN <<>> ELSE BNMulDigit(a, Head(b), 0),
                   IF rest = <<>> THEN rest ELSE <<0>> \o rest)

RECURSIVE BNLessFrom(_, _, _)
BNLessFrom(a, b, k) ==
    IF k = 0 THEN FALSE
    ELSE IF a[k] # b[k] THEN a[k] < b[k]
    ELSE BNLessFrom(a, b, k - 1)

BNLess(a, b) ==
    IF Len(a) # Len(b) THEN Len(a) < Len(b) ELSE BNLessFrom(a, b, Len(a))

(***************************************************************************)
(* Doubles.  Dec(k, scale) is the decimal literal k / scale.               *)
(***************************************************************************)
Dec(k, scale) ==
    [neg |-> k < 0, n |-> BN(IF k < 0 THEN 0 - k ELSE k), d |-> BN(scale)]

\* The value of a double object that was never assigned.
Indeterminate == [neg |-> FALSE, n |-> <<>>, d |-> <<>>]

IsAssigned(x) == x.d # <<>>

\* The same number with the factors of Radix that the numerator and the
\* denominator share cancelled.
RECURSIVE DCancel(_)
DCancel(x) ==
    IF x.n # <<>> /\ x.d # <<>> /\ Head(x.n) = 0 /\ Head(x.d) = 0
    THEN DCancel([neg |-> x.neg, n |-> Tail(x.n), d |-> Tail(x.d)])
    ELSE x

DMul(x, y) ==
    LET n == BNMul(x.n, y.n)
    IN  DCancel([neg |-> n # <<>> /\ x.neg # y.neg, n |-> n, d |-> BNMul(x.d, y.d)])

DDiv(x, y) == DMul(x, [neg |-> y.neg, n |-> y.d, d |-> y.n])

DAdd(x, y) ==
    LET same == x.d = y.d
        a == IF same THEN x.n ELSE BNMul(x.n, y.d)
        b == IF same THEN y.n ELSE BNMul(y.n, x.d)
        d == IF same THEN x.d ELSE BNMul(x.d, y.d)
    IN  DCancel(IF x.neg = y.neg
                THEN [neg |-> x.neg, n |-> BNAdd(a, b), d |-> d]
                ELSE IF BNLess(a, b)
                THEN [neg |-> y.neg, n |-> BNSub(b, a), d |-> d]
                ELSE [neg |-> x.neg /\ a # b, n |-> BNSub(a, b), d |-> d])

RECURSIVE pow(_, _)
pow(x, e) == IF e = 0 THEN Dec(1, 1) ELSE DMul(x, pow(x, e - 1))

\* x == y on doubles: both assigned and the same number.
DEq(x, y) ==
    /\ IsAssigned(x) /\ IsAssigned(y)
    /\ x.neg = y.neg
    /\ BNMul(x.n, y.d) = BNMul(y.n, x.d)

\* x <= y on assigned doubles.
DLe(x, y) ==
    LET a == BNMul(x.n, y.d)
        b == BNMul(y.n, x.d)
    IN  IF x.neg # y.neg THEN x.neg
        ELSE IF x.neg THEN ~BNLess(a, b) ELSE ~BNLess(b, a)

(***************************************************************************)
(* utilities-config.h                                                      *)
(***************************************************************************)
kSensorCalibrationConstant1 == Dec(249926, 100)
kSensorCalibrationConstant2 == Dec(11768220, 100)
kSensorCalibrationConstant3 == Dec(-31436400, 100)

kDefaultInputDistributionHxferUniformDistLow == Dec(10, 1000)
kDefaultInputDistributionHxferUniformDistHigh == Dec(50, 1000)
kDefaultInputDistributionTflowUniformDistLow == Dec(2930, 10)
kDefaultInputDistributionTflowUniformDistHigh == Dec(2940, 10)
kDefaultInputDistributionT0UniformDistLow == Dec(2730, 10)
kDefaultInputDistributionT0UniformDistHigh == Dec(2735, 10)
kDefaultInputDistributionPflowUniformDistLow == Dec(42000000, 100)
kDefaultInputDistributionPflowUniformDistHigh == Dec(42500000, 100)
kDefaultInputDistributionP0UniformDistLow == Dec(40000000, 100)
kDefaultInputDistributionP0UniformDistHigh == Dec(40500000, 100)

kInputDistributionIndexHxfer == 0
kInputDistributionIndexTflow == 1
kInputDistributionIndexT0 == 2
kInputDistributionIndexPflow == 3
kInputDistributionIndexP0 == 4
kInputDistributionIndexMax == 5

kOutputDistributionIndexCalibratedMassFlowOutput == 0
kOutputDistributionIndexCalibratedDifferentialPressureOutput == 1
kOutputDistributionIndexMax == 2

InputIndices == 0 .. (kInputDistributionIndexMax - 1)
OutputIndices == 0 .. (kOutputDistributionIndexMax - 1)

\* The value UxHwDoubleUniformDist(low, high) returns when the runtime's
\* variate is u: the low end of the range for 0, the high end for 1.
UxHwDoubleUniformDist(low, high, u) == IF u = 0 THEN low ELSE high

(***************************************************************************)
(* calculateSensorOutput                                                   *)
(***************************************************************************)
\* A slip in the mass flow: the cubic term with pow(h, 2).
CalibratedMassFlowSquared(h) ==
    DAdd(DAdd(DMul(kSensorCalibrationConstant3, pow(h, 2)),
              DMul(kSensorCalibrationConstant2, pow(h, 2))),
         kSensorCalibrationConstant1)

\* m = C3 * pow(h, 3) + C2 * pow(h, 2) + C1
CalibratedMassFlow(h) ==
    DAdd(DAdd(DMul(kSensorCalibrationConstant3, pow(h, 3)),
              DMul(kSensorCalibrationConstant2, pow(h, 2))),
         kSensorCalibrationConstant1)

\* A slip in the differential pressure: the pressure ratio upside down.
CalibratedDifferentialPressureInverted(m, Tflow, T0, Pflow, P0) ==
    DMul(DMul(m, DDiv(Tflow, T0)), DDiv(Pflow, P0))

\* calibratedValue = m * (Tflow/T0) * (P0/Pflow)
CalibratedDifferentialPressure(m, Tflow, T0, Pflow, P0) ==
    DMul(DMul(m, DDiv(Tflow, T0)), DDiv(P0, Pflow))

\* A slip in calculateSensorOutput: both outputs are written whatever
\* outputSelect is.
calculateSensorOutputWritingBoth(args, inputDist, outputDist) ==
    LET m == CalibratedMassFlow(inputDist[kInputDistributionIndexHxfer])
        dp == CalibratedDifferentialPressure(
                  m,
                  inputDist[kInputDistributionIndexTflow],
                  inputDist[kInputDistributionIndexT0],
                  inputDist[kInputDistributionIndexPflow],
                  inputDist[kInputDistributionIndexP0])
    IN  [calibratedValue |->
             IF args.outputSelect = kOutputDistributionIndexCalibratedMassFlowOutput
             THEN m ELSE dp,
         outputDistributions |->
             [j \in OutputIndices |->
                 IF j = kOutputDistributionIndexCalibratedMassFlowOutput THEN m ELSE dp],
         inputDistributions |-> inputDist]

\* The call's result: the returned value, and the two arrays as the call
\* leaves them.
calculateSensorOutput(args, inputDist, outputDist) ==
    LET calculateAllOutputs == args.outputSelect = kOutputDistributionIndexMax
        h == inputDist[kInputDistributionIndexHxfer]
        m == CalibratedMassFlow(h)
        massFlow ==
            \/ calculateAllOutputs
            \/ args.outputSelect = kOutputDistributionIndexCalibratedMassFlowOutput
        pressure ==
            \/ calculateAllOutputs
            \/ args.outputSelect = kOutputDistributionIndexCalibratedDifferentialPressureOutput
        dp == CalibratedDifferentialPressure(
                  m,
                  inputDist[kInputDistributionIndexTflow],
                  inputDist[kInputDistributionIndexT0],
                  inputDist[kInputDistributionIndexPflow],
                  inputDist[kInputDistributionIndexP0])
        out1 == IF massFlow
                THEN [outputDist EXCEPT ![kOutputDistributionIndexCalibratedMassFlowOutput] = m]
                ELSE outputDist
        out2 == IF pressure
                THEN [out1 EXCEPT ![kOutputDistributionIndexCalibratedDifferentialPressureOutput] = dp]
                ELSE out1
    IN  [calibratedValue |-> IF pressure THEN dp
                             ELSE IF massFlow THEN m
                             ELSE Indeterminate,
         outputDistributions |-> out2,
         inputDistributions |-> inputDist]

(***************************************************************************)
(* setInputDistributionsViaUxHwCall.  Variates is the set of the variates  *)
(* the runtime may use for the five draws of one call: Hxfer has a variate *)
(* of its own, the other four inputs share one.  The operator is the set   *)
(* of the writes one call may make, each a function from the index written *)
(* to the value written.                                                   *)
(***************************************************************************)
Variates ==
    { u \in [InputIndices -> {0, 1}] :
        \A j \in InputIndices \ {kInputDistributionIndexHxfer} :
            u[j] = u[kInputDistributionIndexTflow] }

InputDistributionDraw(u) ==
    [j \in InputIndices |->
        CASE j = kInputDistributionIndexHxfer ->
               UxHwDoubleUniformDist(kDefaultInputDistributionHxferUniformDistLow,
                                     kDefaultInputDistributionHxferUniformDistHigh, u[j])
          [] j = kInputDistributionIndexTflow ->
               UxHwDoubleUniformDist(kDefaultInputDistributionTflowUniformDistLow,
                                     kDefaultInputDistributionTflowUniformDistHigh, u[j])
          [] j = kInputDistributionIndexT0 ->
               UxHwDoubleUniformDist(kDefaultInputDistributionT0UniformDistLow,
                                     kDefaultInputDistributionT0UniformDistHigh, u[j])
          [] j = kInputDistributionIndexPflow ->
               UxHwDoubleUniformDist(kDefaultInputDistributionPflowUniformDistLow,
                                     kDefaultInputDistributionPflowUniformDistHigh, u[j])
          [] j = kInputDistributionIndexP0 ->
               UxHwDoubleUniformDist(kDefaultInputDistributionP0UniformDistLow,
                                     kDefaultInputDistributionP0UniformDistHigh, u[j])]

setInputDistributionsViaUxHwCall == { InputDistributionDraw(u) : u \in Variates }

(***************************************************************************)
(* Collaborators of main whose code is not part of the sources.            *)
(***************************************************************************)
\* The argument structures getCommandLineArguments may fill in on success.
CommandLineArguments ==
    [isMonteCarloMode : BOOLEAN,
     numberOfMonteCarloIterations : 1 .. MaxIterations,
     isTimingEnabled : BOOLEAN,
     isBenchmarkingMode : BOOLEAN,
     isOutputJSONMode : BOOLEAN,
     isWriteToFileEnabled : BOOLEAN,
     outputSelect : 0 .. kOutputDistributionIndexMax]

\* CommandLineArguments arguments = {0};
ZeroArguments ==
    [isMonteCarloMode |-> FALSE,
     numberOfMonteCarloIterations |-> 0,
     isTimingEnabled |-> FALSE,
     isBenchmarkingMode |-> FALSE,
     isOutputJSONMode |-> FALSE,
     isWriteToFileEnabled |-> FALSE,
     outputSelect |-> 0]

\* The values clock() may return.
ClockValues == 0 .. MaxClock

RECURSIVE SumOfDoubleSamples(_, _)
SumOfDoubleSamples(samples, count) ==
    IF count = 0
    THEN Dec(0, 1)
    ELSE DAdd(SumOfDoubleSamples(samples, count - 1), samples[count - 1])

\* The mean field of the result; main reads no other field.
calculateMeanAndVarianceOfDoubleSamples(samples, count) ==
    [mean |-> DDiv(SumOfDoubleSamples(samples, count), Dec(count, 1))]

(***************************************************************************)
(* main                                                                    *)
(***************************************************************************)
VARIABLES
    pc,                      \* the statement of main to run next
    arguments,               \* CommandLineArguments arguments
    calibratedSensorOutput,  \* double
    monteCarloOutputSamples, \* "NULL", or "block": the pointer
    block,                   \* the block checkedMalloc returned:
                             \* [state, cells], cells indexed from 0
    start,                   \* clock_t: {} unassigned, {t} assigned
    end,
    cpuTimeUsedSeconds,      \* in clock ticks: {} unassigned, {t} assigned
    inputDistributions,      \* double [kInputDistributionIndexMax]
    outputDistributions,     \* double [kOutputDistributionIndexMax]
    meanAndVariance,
    i,                       \* the loop counter of the driver loop
    returned,                \* "running", or the value main returned
    stdout,                  \* what was printed, in order
    csvFile,                 \* what writeOutputDoubleDistributionsToCSV wrote
    dataDotOut,              \* what saveMonteCarloDoubleDataToDataDotOutFile wrote
    history                  \* what has happened so far (no program state):
                             \*   getCommandLineArguments: "not called",
                             \*     "error" or "success"
                             \*   calls: per call of calculateSensorOutput, its
                             \*     iteration and the value it returned
                             \*   assignedAt: the iteration that last assigned
                             \*     each input (-1: never assigned)
                             \*   writes: the indices written through
                             \*     monteCarloOutputSamples, in order
                             \*   aggregations: per call of
                             \*     calculateMeanAndVarianceOfDoubleSamples, the
                             \*     loop counter and the number of calls so far
                             \*   cleanup: "save" and "free", in order
                             \*   useAfterFree: the block was used after free

vars ==
    <<pc, arguments, calibratedSensorOutput, monteCarloOutputSamples, block,
      start, end, cpuTimeUsedSeconds, inputDistributions, outputDistributions,
      meanAndVariance, i, returned, stdout, csvFile, dataDotOut, history>>

Init ==
    /\ pc = "getCommandLineArguments"
    /\ arguments = ZeroArguments
    /\ calibratedSensorOutput = Indeterminate
    /\ monteCarloOutputSamples = "NULL"
    /\ block = [state |-> "none", cells |-> <<>>]
    /\ start = {}
    /\ end = {}
    /\ cpuTimeUsedSeconds = {}
    /\ inputDistributions = [j \in InputIndices |-> Indeterminate]
    /\ outputDistributions = [j \in OutputIndices |-> Indeterminate]
    /\ meanAndVariance = [mean |-> Indeterminate]
    /\ i = 0
    /\ returned = "running"
    /\ stdout = <<>>
    /\ csvFile = <<>>
    /\ dataDotOut = <<>>
    /\ history =
         [getCommandLineArguments |-> "not called",
          calls |-> <<>>,
          assignedAt |-> [j \in InputIndices |-> 0 - 1],
          writes |-> <<>>,
          aggregations |-> <<>>,
          cleanup |-> <<>>,
          useAfterFree |-> FALSE]

\* What reading a timing variable yields: its value, or any value when it
\* was never assigned.
Read(v) == IF v = {} THEN ClockValues ELSE v

\* A slip at the start of main: the result of getCommandLineArguments is
\* not tested.
GetCommandLineArgumentsUnchecked ==
    /\ pc = "getCommandLineArguments"
    /\ \/ /\ history' = [history EXCEPT !.getCommandLineArguments = "error"]
          /\ UNCHANGED arguments
       \/ /\ \E a \in CommandLineArguments : arguments' = a
          /\ history' = [history EXCEPT !.getCommandLineArguments = "success"]
    /\ pc' = "checkedMalloc"
    /\ UNCHANGED <<calibratedSensorOutput, monteCarloOutputSamples, block, start,
                   end, cpuTimeUsedSeconds, inputDistributions,
                   outputDistributions, meanAndVariance, i, returned, stdout,
                   csvFile, dataDotOut>>

\* if (getCommandLineArguments(argc, argv, &arguments)) return kCommonConstantReturnTypeError;
GetCommandLineArguments ==
    /\ pc = "getCommandLineArguments"
    /\ \/ /\ pc' = "done"
          /\ returned' = "kCommonConstantReturnTypeError"
          /\ history' = [history EXCEPT !.getCommandLineArguments = "error"]
          /\ UNCHANGED arguments
       \/ /\ \E a \in CommandLineArguments : arguments' = a
          /\ pc' = "checkedMalloc"
          /\ history' = [history EXCEPT !.getCommandLineArguments = "success"]
          /\ UNCHANGED returned
    /\ UNCHANGED <<calibratedSensorOutput, monteCarloOutputSamples, block, start,
                   end, cpuTimeUsedSeconds, inputDistributions,
                   outputDistributions, meanAndVariance, i, stdout, csvFile,
                   dataDotOut>>

\* if (isMonteCarloMode) monteCarloOutputSamples = checkedMalloc(N * sizeof(double), ...);
CheckedMalloc ==
    /\ pc = "checkedMalloc"
    /\ IF arguments.isMonteCarloMode
       THEN /\ monteCarloOutputSamples' = "block"
            /\ block' = [state |-> "allocated",
                         cells |-> [k \in 0 .. (arguments.numberOfMonteCarloIterations - 1)
                                       |-> Indeterminate]]
       ELSE UNCHANGED <<monteCarloOutputSamples, block>>
    /\ pc' = "startTiming"
    /\ UNCHANGED <<arguments, calibratedSensorOutput, start, end,
                   cpuTimeUsedSeconds, inputDistributions, outputDistributions,
                   meanAndVariance, i, returned, stdout, csvFile, dataDotOut,
                   history>>

\* if (isTimingEnabled || isBenchmarkingMode) start = clock();
StartTiming ==
    /\ pc = "startTiming"
    /\ IF arguments.isTimingEnabled \/ arguments.isBenchmarkingMode
       THEN \E t \in ClockValues : start' = {t}
       ELSE UNCHANGED start
    /\ pc' = "loopTest"
    /\ UNCHANGED <<arguments, calibratedSensorOutput, monteCarloOutputSamples,
                   block, end, cpuTimeUsedSeconds, inputDistributions,
                   outputDistributions, meanAndVariance, i, returned, stdout,
                   csvFile, dataDotOut, history>>

\* A slip in the loop's test: <= for <.
LoopTestInclusive ==
    /\ pc = "loopTest"
    /\ pc' = IF i <= arguments.numberOfMonteCarloIterations
             THEN "setInputDistributionsViaUxHwCall"
             ELSE "calculateMeanAndVariance"
    /\ UNCHANGED <<arguments, calibratedSensorOutput, monteCarloOutputSamples,
                   block, start, end, cpuTimeUsedSeconds, inputDistributions,
                   outputDistributions, meanAndVariance, i, returned, stdout,
                   csvFile, dataDotOut, history>>

\* for (size_t i = 0; i < numberOfMonteCarloIterations; ...)
LoopTest ==
    /\ pc = "loopTest"
    /\ pc' = IF i < arguments.numberOfMonteCarloIterations
             THEN "setInputDistributionsViaUxHwCall"
             ELSE "calculateMeanAndVariance"
    /\ UNCHANGED <<arguments, calibratedSensorOutput, monteCarloOutputSamples,
                   block, start, end, cpuTimeUsedSeconds, inputDistributions,
                   outputDistributions, meanAndVariance, i, returned, stdout,
                   csvFile, dataDotOut, history>>

\* A slip in the loop: the inputs are set in the first iteration only.
SetInputDistributionsOnce ==
    /\ pc = "setInputDistributionsViaUxHwCall"
    /\ IF i = 0
       THEN \E w \in setInputDistributionsViaUxHwCall :
               /\ inputDistributions' = w
               /\ history' = [history EXCEPT !.assignedAt = [j \in InputIndices |-> i]]
       ELSE UNCHANGED <<inputDistributions, history>>
    /\ pc' = "calculateSensorOutput"
    /\ UNCHANGED <<arguments, calibratedSensorOutput, monteCarloOutputSamples,
                   block, start, end, cpuTimeUsedSeconds, outputDistributions,
                   meanAndVariance, i, returned, stdout, csvFile, dataDotOut>>

\* setInputDistributionsViaUxHwCall(inputDistributions);
SetInputDistributions ==
    /\ pc = "setInputDistributionsViaUxHwCall"
    /\ \E w \in setInputDistributionsViaUxHwCall :
          /\ inputDistributions' =
                 [j \in InputIndices |->
                     IF j \in DOMAIN w THEN w[j] ELSE inputDistributions[j]]
          /\ history' =
                 [history EXCEPT !.assignedAt =
                     [j \in InputIndices |->
                         IF j \in DOMAIN w THEN i ELSE history.assignedAt[j]]]
    /\ pc' = "calculateSensorOutput"
    /\ UNCHANGED <<arguments, calibratedSensorOutput, monteCarloOutputSamples,
                   block, start, end, cpuTimeUsedSeconds, outputDistributions,
                   meanAndVariance, i, returned, stdout, csvFile, dataDotOut>>

\* calibratedSensorOutput = calculateSensorOutput(&arguments, inputDistributions, outputDistributions);
CalculateSensorOutput ==
    /\ pc = "calculateSensorOutput"
    /\ LET r == calculateSensorOutput(arguments, inputDistributions, outputDistributions)
       IN  /\ calibratedSensorOutput' = r.calibratedValue
           /\ outputDistributions' = r.outputDistributions
           /\ inputDistributions' = r.inputDistributions
           /\ history' =
                  [history EXCEPT !.calls =
                      Append(@, [iteration |-> i, value |-> r.calibratedValue])]
    /\ pc' = "storeSample"
    /\ UNCHANGED <<arguments, monteCarloOutputSamples, block, start, end,
                   cpuTimeUsedSeconds, meanAndVariance, i, returned, stdout,
                   csvFile, dataDotOut>>

\* if (isMonteCarloMode) monteCarloOutputSamples[i] = calibratedSensorOutput;
\* and the loop's i++.  A write outside the block is recorded in
\* history.writes and changes no cell of the block.
StoreSample ==
    /\ pc = "storeSample"
    /\ IF arguments.isMonteCarloMode
       THEN /\ block' = IF i \in DOMAIN block.cells
                        THEN [block EXCEPT !.cells[i] = calibratedSensorOutput]
                        ELSE block
            /\ history' = [history EXCEPT
                              !.writes = Append(@, i),
                              !.useAfterFree = @ \/ block.state = "freed"]
       ELSE UNCHANGED <<block, history>>
    /\ i' = i + 1
    /\ pc' = "loopTest"
    /\ UNCHANGED <<arguments, calibratedSensorOutput, monteCarloOutputSamples,
                   start, end, cpuTimeUsedSeconds, inputDistributions,
                   outputDistributions, meanAndVariance, returned, stdout,
                   csvFile, dataDotOut>>

\* A slip after the loop: the mean is computed and not assigned to
\* calibratedSensorOutput.
CalculateMeanAndVarianceUnassigned ==
    /\ pc = "calculateMeanAndVariance"
    /\ IF arguments.isMonteCarloMode
       THEN /\ meanAndVariance' =
                   calculateMeanAndVarianceOfDoubleSamples(
                       block.cells, arguments.numberOfMonteCarloIterations)
            /\ history' = [history EXCEPT
                              !.aggregations =
                                  Append(@, [i |-> i, calls |-> Len(history.calls)])]
       ELSE UNCHANGED <<meanAndVariance, history>>
    /\ pc' = "stopTiming"
    /\ UNCHANGED <<arguments, calibratedSensorOutput, monteCarloOutputSamples,
                   block, start, end, cpuTimeUsedSeconds, inputDistributions,
                   outputDistributions, i, returned, stdout, csvFile, dataDotOut>>

\* if (isMonteCarloMode) { meanAndVariance = calculateMeanAndVarianceOfDoubleSamples(
\*     monteCarloOutputSamples, N); calibratedSensorOutput = meanAndVariance.mean; }
CalculateMeanAndVariance ==
    /\ pc = "calculateMeanAndVariance"
    /\ IF arguments.isMonteCarloMode
       THEN /\ meanAndVariance' =
                   calculateMeanAndVarianceOfDoubleSamples(
                       block.cells, arguments.numberOfMonteCarloIterations)
            /\ calibratedSensorOutput' = meanAndVariance'.mean
            /\ history' = [history EXCEPT
                              !.aggregations =
                                  Append(@, [i |-> i, calls |-> Len(history.calls)]),
                              !.useAfterFree = @ \/ block.state = "freed"]
       ELSE UNCHANGED <<meanAndVariance, calibratedSensorOutput, history>>
    /\ pc' = "stopTiming"
    /\ UNCHANGED <<arguments, monteCarloOutputSamples, block, start, end,
                   cpuTimeUsedSeconds, inputDistributions, outputDistributions,
                   i, returned, stdout, csvFile, dataDotOut>>

\* if (isTimingEnabled || isBenchmarkingMode) { end = clock();
\*     cpuTimeUsedSeconds = ((double)(end - start)) / CLOCKS_PER_SEC; }
\* clock() does not decrease; the time is kept in clock ticks.
StopTiming ==
    /\ pc = "stopTiming"
    /\ IF arguments.isTimingEnabled \/ arguments.isBenchmarkingMode
       THEN \E s \in Read(start) : \E t \in ClockValues :
               /\ t >= s
               /\ end' = {t}
               /\ cpuTimeUsedSeconds' = {t - s}
       ELSE UNCHANGED <<end, cpuTimeUsedSeconds>>
    /\ pc' = "report"
    /\ UNCHANGED <<arguments, calibratedSensorOutput, monteCarloOutputSamples,
                   block, start, inputDistributions, outputDistributions,
                   meanAndVariance, i, returned, stdout, csvFile, dataDotOut,
                   history>>

\* The printing of lines 206-249: the benchmarking line, or the text or the
\* JSON form of the results.
Report ==
    /\ pc = "report"
    /\ IF arguments.isBenchmarkingMode
       THEN /\ \E t \in Read(cpuTimeUsedSeconds) :
                  stdout' = Append(stdout,
                      [call |-> "printf", value |-> calibratedSensorOutput,
                       microseconds |-> t])
            /\ pc' = "saveMonteCarloDoubleDataToDataDotOutFile"
       ELSE /\ stdout' =
                 IF ~arguments.isOutputJSONMode
                 THEN IF arguments.outputSelect = kOutputDistributionIndexMax
                      THEN stdout \o
                           [k \in 1 .. kOutputDistributionIndexMax |->
                               [call |-> "printCalibratedValueAndProbabilities",
                                value |-> outputDistributions[k - 1],
                                name |-> k - 1]]
                      ELSE Append(stdout,
                               [call |-> "printCalibratedValueAndProbabilities",
                                value |-> calibratedSensorOutput,
                                name |-> arguments.outputSelect])
                 ELSE Append(stdout,
                          [call |-> "printJSONFormattedOutput",
                           monteCarloOutputSamples |-> monteCarloOutputSamples,
                           outputDistributions |-> outputDistributions])
            /\ pc' = "printTiming"
    /\ UNCHANGED <<arguments, calibratedSensorOutput, monteCarloOutputSamples,
                   block, start, end, cpuTimeUsedSeconds, inputDistributions,
                   outputDistributions, meanAndVariance, i, returned, csvFile,
                   dataDotOut, history>>

\* if (isTimingEnabled) printf("\nCPU time used: %lf seconds\n", cpuTimeUsedSeconds);
PrintTiming ==
    /\ pc = "printTiming"
    /\ IF arguments.isTimingEnabled
       THEN \E t \in Read(cpuTimeUsedSeconds) :
               stdout' = Append(stdout, [call |-> "printf", seconds |-> t])
       ELSE UNCHANGED stdout
    /\ pc' = "writeOutputDoubleDistributionsToCSV"
    /\ UNCHANGED <<arguments, calibratedSensorOutput, monteCarloOutputSamples,
                   block, start, end, cpuTimeUsedSeconds, inputDistributions,
                   outputDistributions, meanAndVariance, i, returned, csvFile,
                   dataDotOut, history>>

\* if (isWriteToFileEnabled) if (writeOutputDoubleDistributionsToCSV(...))
\*     return kCommonConstantReturnTypeError;
WriteOutputDoubleDistributionsToCSV ==
    /\ pc = "writeOutputDoubleDistributionsToCSV"
    /\ IF arguments.isWriteToFileEnabled
       THEN \/ /\ pc' = "done"
               /\ returned' = "kCommonConstantReturnTypeError"
               /\ UNCHANGED csvFile
            \/ /\ csvFile' = Append(csvFile, outputDistributions)
               /\ pc' = "saveMonteCarloDoubleDataToDataDotOutFile"
               /\ UNCHANGED returned
       ELSE /\ pc' = "saveMonteCarloDoubleDataToDataDotOutFile"
            /\ UNCHANGED <<csvFile, returned>>
    /\ UNCHANGED <<arguments, calibratedSensorOutput, monteCarloOutputSamples,
                   block, start, end, cpuTimeUsedSeconds, inputDistributions,
                   outputDistributions, meanAndVariance, i, stdout, dataDotOut,
                   history>>

\* if (isMonteCarloMode) saveMonteCarloDoubleDataToDataDotOutFile(
\*     monteCarloOutputSamples, (uint64_t)(cpuTimeUsedSeconds*1000000), N);
SaveMonteCarloDoubleDataToDataDotOutFile ==
    /\ pc = "saveMonteCarloDoubleDataToDataDotOutFile"
    /\ IF arguments.isMonteCarloMode
       THEN /\ \E t \in Read(cpuTimeUsedSeconds) :
                  dataDotOut' = Append(dataDotOut,
                      [samples |-> block.cells, microseconds |-> t,
                       count |-> arguments.numberOfMonteCarloIterations])
            /\ history' = [history EXCEPT
                              !.cleanup = Append(@, "save"),
                              !.useAfterFree = @ \/ block.state = "freed"]
            /\ pc' = "free"
       ELSE /\ pc' = "return"
            /\ UNCHANGED <<dataDotOut, history>>
    /\ UNCHANGED <<arguments, calibratedSensorOutput, monteCarloOutputSamples,
                   block, start, end, cpuTimeUsedSeconds, inputDistributions,
                   outputDistributions, meanAndVariance, i, returned, stdout,
                   csvFile>>

\* free(monteCarloOutputSamples);
Free ==
    /\ pc = "free"
    /\ block' = [block EXCEPT !.state = "freed"]
    /\ history' = [history EXCEPT
                      !.cleanup = Append(@, "free"),
                      !.useAfterFree = @ \/ block.state = "freed"]
    /\ pc' = "return"
    /\ UNCHANGED <<arguments, calibratedSensorOutput, monteCarloOutputSamples,
                   start, end, cpuTimeUsedSeconds, inputDistributions,
                   outputDistributions, meanAndVariance, i, returned, stdout,
                   csvFile, dataDotOut>>

\* return 0;
Return ==
    /\ pc = "return"
    /\ returned' = "0"
    /\ pc' = "done"
    /\ UNCHANGED <<arguments, calibratedSensorOutput, monteCarloOutputSamples,
                   block, start, end, cpuTimeUsedSeconds, inputDistributions,
                   outputDistributions, meanAndVariance, i, stdout, csvFile,
                   dataDotOut, history>>

Next ==
    \/ GetCommandLineArguments
    \/ CheckedMalloc
    \/ StartTiming
    \/ LoopTest
    \/ SetInputDistributions
    \/ CalculateSensorOutput
    \/ StoreSample
    \/ CalculateMeanAndVariance
    \/ StopTiming
    \/ Report
    \/ PrintTiming
    \/ WriteOutputDoubleDistributionsToCSV
    \/ SaveMonteCarloDoubleDataToDataDotOutFile
    \/ Free
    \/ Return

Spec == Init /\ [][Next]_vars

(***************************************************************************)
(* calculateSensorOutput on its own: called once from every combination    *)
(* of outputSelect, of the five inputs at either end of their ranges, and  *)
(* of an output array that is still unassigned or holds earlier values.    *)
(* The function reads no other member of the arguments.                    *)
(***************************************************************************)
AllVariates == [InputIndices -> {0, 1}]

EarlierOutputs ==
    { [j \in OutputIndices |-> Indeterminate],
      [j \in OutputIndices |-> Dec(j + 1, 1)] }

CallInit ==
    /\ pc = "calculateSensorOutput"
    /\ arguments \in { a \in CommandLineArguments :
                          /\ a.numberOfMonteCarloIterations = 1
                          /\ ~a.isMonteCarloMode
                          /\ ~a.isTimingEnabled
                          /\ ~a.isBenchmarkingMode
                          /\ ~a.isOutputJSONMode
                          /\ ~a.isWriteToFileEnabled }
    /\ calibratedSensorOutput = Indeterminate
    /\ monteCarloOutputSamples = "NULL"
    /\ block = [state |-> "none", cells |-> <<>>]
    /\ start = {}
    /\ end = {}
    /\ cpuTimeUsedSeconds = {}
    /\ inputDistributions \in { InputDistributionDraw(u) : u \in AllVariates }
    /\ outputDistributions \in EarlierOutputs
    /\ meanAndVariance = [mean |-> Indeterminate]
    /\ i = 0
    /\ returned = "running"
    /\ stdout = <<>>
    /\ csvFile = <<>>
    /\ dataDotOut = <<>>
    /\ history =
         [getCommandLineArguments |-> "success",
          calls |-> <<>>,
          assignedAt |-> [j \in InputIndices |-> 0],
          writes |-> <<>>,
          aggregations |-> <<>>,
          cleanup |-> <<>>,
          useAfterFree |-> FALSE]

CallNext == CalculateSensorOutput

CallSpec == CallInit /\ [][CallNext]_vars

(***************************************************************************)
(* Properties of calculateSensorOutput, checked under CallSpec.            *)
(***************************************************************************)
\* The polynomial of the sensor's data sheet, written out:
\* -314364.00 h^3 + 117682.20 h^2 + 2499.26.
MassFlowPolynomial(h) ==
    DAdd(DAdd(DMul(Dec(-31436400, 100), DMul(h, DMul(h, h))),
              DMul(Dec(11768220, 100), DMul(h, h))),
         Dec(249926, 100))

MassFlowSelected ==
    arguments.outputSelect \in
        {kOutputDistributionIndexCalibratedMassFlowOutput, kOutputDistributionIndexMax}

DifferentialPressureSelected ==
    arguments.outputSelect \in
        {kOutputDistributionIndexCalibratedDifferentialPressureOutput,
         kOutputDistributionIndexMax}

SingleOutputSelected == arguments.outputSelect \in OutputIndices

\* C1: after a call that selects the mass flow (alone or with all outputs),
\* outputDistributions[mass flow] is C3*h^3 + C2*h^2 + C1 for h the Hxfer
\* input, and a call with the same h and any other Tflow, T0, Pflow, P0
\* writes the same value.
MassFlowIsPolynomialOfHxfer ==
    (pc = "storeSample" /\ MassFlowSelected) =>
        LET massFlow == outputDistributions[kOutputDistributionIndexCalibratedMassFlowOutput]
            h == inputDistributions[kInputDistributionIndexHxfer]
        IN  /\ DEq(massFlow, MassFlowPolynomial(h))
            /\ \A u \in AllVariates :
                  LET other == InputDistributionDraw(u)
                  IN  other[kInputDistributionIndexHxfer] = h =>
                         DEq(calculateSensorOutput(arguments, other, outputDistributions)
                                 .outputDistributions[kOutputDistributionIndexCalibratedMassFlowOutput],
                             massFlow)

MassFlowWitness ==
    /\ pc = "storeSample"
    /\ arguments.outputSelect = kOutputDistributionIndexCalibratedMassFlowOutput
    /\ inputDistributions[kInputDistributionIndexHxfer] =
           kDefaultInputDistributionHxferUniformDistHigh
    /\ inputDistributions[kInputDistributionIndexP0] =
           kDefaultInputDistributionP0UniformDistHigh
    /\ IsAssigned(outputDistributions[kOutputDistributionIndexCalibratedMassFlowOutput])

\* C2: after a call that selects the differential pressure (alone or with
\* all outputs), outputDistributions[differential pressure] is
\* m * (Tflow/T0) * (P0/Pflow) for m the polynomial of Hxfer; with all
\* outputs selected it is outputDistributions[mass flow] * (Tflow/T0) * (P0/Pflow).
DifferentialPressureIsScaledMassFlow ==
    (pc = "storeSample" /\ DifferentialPressureSelected) =>
        LET pressure == outputDistributions[kOutputDistributionIndexCalibratedDifferentialPressureOutput]
            Tflow == inputDistributions[kInputDistributionIndexTflow]
            T0 == inputDistributions[kInputDistributionIndexT0]
            Pflow == inputDistributions[kInputDistributionIndexPflow]
            P0 == inputDistributions[kInputDistributionIndexP0]
            m == MassFlowPolynomial(inputDistributions[kInputDistributionIndexHxfer])
        IN  /\ DEq(DMul(pressure, DMul(T0, Pflow)), DMul(m, DMul(Tflow, P0)))
            /\ arguments.outputSelect = kOutputDistributionIndexMax =>
                  DEq(pressure,
                      DMul(DMul(outputDistributions[kOutputDistributionIndexCalibratedMassFlowOutput],
                                DDiv(Tflow, T0)),
                           DDiv(P0, Pflow)))

DifferentialPressureWitness ==
    /\ pc = "storeSample"
    /\ arguments.outputSelect = kOutputDistributionIndexMax
    /\ inputDistributions[kInputDistributionIndexTflow] =
           kDefaultInputDistributionTflowUniformDistHigh
    /\ inputDistributions[kInputDistributionIndexT0] =
           kDefaultInputDistributionT0UniformDistLow
    /\ ~DEq(outputDistributions[kOutputDistributionIndexCalibratedDifferentialPressureOutput],
            outputDistributions[kOutputDistributionIndexCalibratedMassFlowOutput])

\* C3: a call that selects a single output leaves the returned value in
\* outputDistributions[outputSelect], and leaves the other output and the
\* five inputs as they were.
SingleOutputCallFrame ==
    [][(pc = "calculateSensorOutput" /\ SingleOutputSelected) =>
          /\ IsAssigned(calibratedSensorOutput')
          /\ outputDistributions'[arguments.outputSelect] = calibratedSensorOutput'
          /\ \A j \in OutputIndices \ {arguments.outputSelect} :
                outputDistributions'[j] = outputDistributions[j]
          /\ inputDistributions' = inputDistributions]_vars

SingleOutputCallWitness ==
    /\ pc = "storeSample"
    /\ arguments.outputSelect = kOutputDistributionIndexCalibratedDifferentialPressureOutput
    /\ outputDistributions[kOutputDistributionIndexCalibratedDifferentialPressureOutput] =
           calibratedSensorOutput
    /\ outputDistributions[kOutputDistributionIndexCalibratedMassFlowOutput] = Dec(1, 1)
(***************************************************************************)
(* Properties of main, checked under Spec.                                 *)
(***************************************************************************)
LoopStatements ==
    {"loopTest", "setInputDistributionsViaUxHwCall", "calculateSensorOutput",
     "storeSample"}

\* The driver loop has ended: main is at a statement after it, or has
\* returned from one.
LoopEnded ==
    \/ pc \in {"calculateMeanAndVariance", "stopTiming", "report", "printTiming",
               "writeOutputDoubleDistributionsToCSV",
               "saveMonteCarloDoubleDataToDataDotOutFile", "free", "return"}
    \/ pc = "done" /\ history.getCommandLineArguments = "success"

\* The statement that aggregates the samples has been passed.
AggregationPassed == LoopEnded /\ pc # "calculateMeanAndVariance"

DriverLoopSafety ==
    LET N == arguments.numberOfMonteCarloIterations
    IN  arguments.isMonteCarloMode =>
          /\ i <= N
          /\ Len(history.calls) <= N
          /\ \A k \in 1 .. Len(history.writes) :
                /\ history.writes[k] = k - 1
                /\ history.writes[k] \in 0 .. (N - 1)
                /\ history.writes[k] \in DOMAIN block.cells
          /\ LoopEnded =>
                /\ i = N
                /\ Len(history.calls) = N
                /\ Len(history.writes) = N
                /\ \A k \in 0 .. (N - 1) :
                      /\ history.calls[k + 1].iteration = k
                      /\ IsAssigned(block.cells[k])
                      /\ block.cells[k] = history.calls[k + 1].value

\* The statements of the loop still to run before the loop ends: four per
\* iteration left, less those of the current iteration already run.
LoopStatementsLeft ==
    LET left == 4 * (arguments.numberOfMonteCarloIterations - i)
    IN  CASE pc = "loopTest" -> left + 1
          [] pc = "setInputDistributionsViaUxHwCall" -> left
          [] pc = "calculateSensorOutput" -> left - 1
          [] pc = "storeSample" -> left - 2
          [] OTHER -> 0

\* C4: in Monte Carlo mode the driver loop makes exactly N iterations and
\* ends (every step of the loop lessens the number of statements left to
\* run, which is never negative); every write through
\* monteCarloOutputSamples has an index in 0..N-1, inside the block; when
\* the loop has ended every entry 0..N-1 was written exactly once, with the
\* value calculateSensorOutput returned in that iteration.
DriverLoopFillsSamples ==
    /\ []DriverLoopSafety
    /\ [][(arguments.isMonteCarloMode /\ pc \in LoopStatements) =>
            /\ LoopStatementsLeft' < LoopStatementsLeft
            /\ LoopStatementsLeft' >= 0
            /\ pc' \in LoopStatements \/ LoopEnded']_vars

DriverLoopWitness ==
    /\ pc = "calculateMeanAndVariance"
    /\ arguments.isMonteCarloMode
    /\ arguments.numberOfMonteCarloIterations = MaxIterations
    /\ block.cells[0] # block.cells[1]

RECURSIVE SumOfReturned(_, _)
SumOfReturned(calls, k) ==
    IF k = 0 THEN Dec(0, 1) ELSE DAdd(SumOfReturned(calls, k - 1), calls[k].value)

\* An entry of stdout that prints the single result: the benchmarking line,
\* or the text line of a single selected output.
PrintsSingleResult(entry) ==
    \/ entry.call = "printf" /\ "value" \in DOMAIN entry
    \/ /\ entry.call = "printCalibratedValueAndProbabilities"
       /\ SingleOutputSelected

\* C5: the single result main reports is, in Monte Carlo mode, the mean of
\* the N collected samples, aggregated once, after the loop has ended and
\* not before; outside Monte Carlo mode it is the value the last call of
\* calculateSensorOutput returned, and nothing is aggregated.
ReportedResultIsMeanOrLastValue ==
    LET N == arguments.numberOfMonteCarloIterations
    IN  /\ \A k \in 1 .. Len(history.aggregations) :
              /\ arguments.isMonteCarloMode
              /\ k = 1
              /\ history.aggregations[k] = [i |-> N, calls |-> N]
        /\ AggregationPassed =>
              IF arguments.isMonteCarloMode
              THEN /\ Len(history.aggregations) = 1
                   /\ DEq(DMul(calibratedSensorOutput, Dec(N, 1)),
                          SumOfReturned(history.calls, N))
              ELSE /\ history.aggregations = <<>>
                   /\ Len(history.calls) = N
                   /\ IsAssigned(calibratedSensorOutput)
                   /\ calibratedSensorOutput = history.calls[N].value
        /\ \A k \in 1 .. Len(stdout) :
              PrintsSingleResult(stdout[k]) =>
                 /\ AggregationPassed
                 /\ stdout[k].value = calibratedSensorOutput

ReportedResultWitness ==
    /\ pc = "done"
    /\ arguments.isMonteCarloMode
    /\ arguments.isBenchmarkingMode
    /\ arguments.numberOfMonteCarloIterations = MaxIterations
    /\ block.cells[0] # block.cells[1]
    /\ Len(stdout) = 1
    /\ stdout[1].value = meanAndVariance.mean

\* C6: when getCommandLineArguments reports failure, main returns
\* kCommonConstantReturnTypeError at once: no block is allocated, no input
\* is assigned, calculateSensorOutput is not called, nothing is printed and
\* no file is written.
ArgumentErrorReturnsAtOnce ==
    history.getCommandLineArguments = "error" =>
        /\ pc = "done"
        /\ returned = "kCommonConstantReturnTypeError"
        /\ monteCarloOutputSamples = "NULL"
        /\ block.state = "none"
        /\ \A j \in InputIndices :
              /\ history.assignedAt[j] < 0
              /\ ~IsAssigned(inputDistributions[j])
        /\ history.calls = <<>>
        /\ stdout = <<>>
        /\ csvFile = <<>>
        /\ dataDotOut = <<>>

ArgumentErrorWitness ==
    /\ history.getCommandLineArguments = "error"
    /\ pc = "done"
    /\ returned = "kCommonConstantReturnTypeError"

UniformDistLow(j) ==
    CASE j = kInputDistributionIndexHxfer -> kDefaultInputDistributionHxferUniformDistLow
      [] j = kInputDistributionIndexTflow -> kDefaultInputDistributionTflowUniformDistLow
      [] j = kInputDistributionIndexT0 -> kDefaultInputDistributionT0UniformDistLow
      [] j = kInputDistributionIndexPflow -> kDefaultInputDistributionPflowUniformDistLow
      [] j = kInputDistributionIndexP0 -> kDefaultInputDistributionP0UniformDistLow

UniformDistHigh(j) ==
    CASE j = kInputDistributionIndexHxfer -> kDefaultInputDistributionHxferUniformDistHigh
      [] j = kInputDistributionIndexTflow -> kDefaultInputDistributionTflowUniformDistHigh
      [] j = kInputDistributionIndexT0 -> kDefaultInputDistributionT0UniformDistHigh
      [] j = kInputDistributionIndexPflow -> kDefaultInputDistributionPflowUniformDistHigh
      [] j = kInputDistributionIndexP0 -> kDefaultInputDistributionP0UniformDistHigh

\* C7: whenever calculateSensorOutput is about to be called, each of the
\* five inputs was assigned in this same iteration of the loop, with a value
\* in its own range [low, high] of utilities-config.h.
InputsFreshAtEveryCall ==
    pc = "calculateSensorOutput" =>
        \A j \in InputIndices :
            /\ history.assignedAt[j] = i
            /\ IsAssigned(inputDistributions[j])
            /\ DLe(UniformDistLow(j), inputDistributions[j])
            /\ DLe(inputDistributions[j], UniformDistHigh(j))

InputsFreshWitness ==
    /\ pc = "calculateSensorOutput"
    /\ i = 1
    /\ Len(history.calls) = 1
    /\ inputDistributions[kInputDistributionIndexHxfer] =
           kDefaultInputDistributionHxferUniformDistHigh
    /\ DEq(history.calls[1].value,
           CalibratedMassFlow(kDefaultInputDistributionHxferUniformDistLow))

\* C8: wherever main reads start or cpuTimeUsedSeconds, the variable has
\* been assigned, for every combination of isMonteCarloMode, isTimingEnabled
\* and isBenchmarkingMode.
TimingVariablesAssignedBeforeRead ==
    /\ (pc = "stopTiming"
          /\ (arguments.isTimingEnabled \/ arguments.isBenchmarkingMode))
       => start # {}
    /\ (pc = "report" /\ arguments.isBenchmarkingMode) => cpuTimeUsedSeconds # {}
    /\ (pc = "printTiming" /\ arguments.isTimingEnabled) => cpuTimeUsedSeconds # {}
    /\ (pc = "saveMonteCarloDoubleDataToDataDotOutFile" /\ arguments.isMonteCarloMode)
       => cpuTimeUsedSeconds # {}

====
